---- MODULE Spec2Model ----
(***************************************************************************)
(* A model of the oopt-bot repository:                                     *)
(*   - src/RAG.py : chunk_text, build_index, load_index, retrieve,         *)
(*                  rag_answer (the FAISS + cross-encoder pipeline);       *)
(*   - src/bot.py : SimpleDocumentSearch.load_documents running in the     *)
(*                  background thread, and the handle_message handler.     *)
(* Three specifications share the module, one per part of the program:     *)
(*   SpecChunk : one call of chunk_text, one loop iteration per step;      *)
(*   SpecRag   : build_index running concurrently with rag_answer over     *)
(*               the two files faiss.index and chunks_meta.json;           *)
(*   SpecBot   : the load_documents thread and handle_message.             *)
(* Strings are sequences of one-character strings; scores are integers     *)
(* (similarity in hundredths, rerank scores in units).                     *)
(***************************************************************************)
EXTENDS Integers, Sequences, FiniteSets, TLC

\* ---------------------------------------------------------------- bounds
\* longest text handed to chunk_text
MaxLen == 4
\* largest chunk_size argument tried
MaxChunkSize == 3
\* largest overlap argument tried
MaxOverlap == 3
\* cap on the chunks list, reached only by a call that does not terminate
MaxChunks == 6
\* most .docx files in the directory build_index scans
MaxDocs == 2
\* most files os.walk yields to load_documents
MaxFiles == 2
\* most documents loaded when search_documents is called alone
MaxSearchDocs == 4
\* largest top_k argument tried besides the default TOP_K
MaxTopK == 2

\* ----------------------------------------------------- program constants
\* CHUNK_CHARS, CHUNK_OVERLAP, TOP_K of src/RAG.py
CHUNK_CHARS == 1000
CHUNK_OVERLAP == 100
TOP_K == 5
\* `score<0.5` of retrieve, in hundredths
ScoreFloor == 50
\* the rerank_score 999.0 given to an exact hit
ExactScore == 999
\* `len(text.strip()) > 10` of load_documents
MinDocChars == 10
\* `len(word) > 2` of search_documents
MinKeywordLen == 2
\* `len(user_query) < 2` of handle_message
MinQueryLen == 2
\* `results[:3]` of search_documents
MaxResults == 3

\* ------------------------------------------------------------- variables
VARIABLES
    \* chunk_text (src/RAG.py:28-40)
    text, chunk_size, overlap, start, chunks, ck_pc,
    \* the two persisted artifacts: INDEX_PATH and META_PATH
    index_file, meta_file,
    \* build_index (src/RAG.py:43-84): the directory listing, the loop
    \* position, its lists, its position
    b_docs, b_i, all_texts, b_meta, b_pc,
    \* rag_answer (src/RAG.py:111-186): its arguments, what load_index
    \* returned, the similarity index.search computes for each row, its
    \* lists, its position and how it ended
    query, top_k, index, meta, texts, row_scores, exact_hits, retrieved,
    combined, q_pc, outcome,
    \* bot.py: DEEPSEEK_API_KEY is set; the fields of doc_search
    api_key, documents, loaded, loading, error,
    \* the thread running load_documents: the files os.walk yields, the
    \* position in them, its position
    l_files, l_i, l_pc,
    \* handle_message: message.text, search_results, what ask_deepseek
    \* returned, full_answer, the message sent, its position
    user_query, search_results, deepseek, full_answer, reply, h_pc

vars_chunk == <<text, chunk_size, overlap, start, chunks, ck_pc>>
vars_disk == <<index_file, meta_file>>
vars_build == <<b_docs, b_i, all_texts, b_meta, b_pc>>
vars_query == <<query, top_k, index, meta, texts, row_scores, exact_hits,
                retrieved, combined, q_pc, outcome>>
vars_rag == <<vars_disk, vars_build, vars_query>>
vars_search == <<documents, loaded, loading, error>>
vars_load == <<l_files, l_i, l_pc>>
vars_handle == <<user_query, search_results, deepseek, full_answer, reply, h_pc>>
vars_bot == <<api_key, vars_search, vars_load, vars_handle>>
vars == <<vars_chunk, vars_rag, vars_bot>>

\* ------------------------------------------------------- string helpers
Min(a, b) == IF a < b THEN a ELSE b
Max(a, b) == IF a > b THEN a ELSE b

\* whitespace: a blank and a line break
IsSpace(c) == c \in {" ", "\n"}

\* s[i:j] of Python for 0 <= i <= j <= len(s)
Slice(s, i, j) == SubSeq(s, i + 1, j)

RECURSIVE LStrip(_)
LStrip(s) == IF s = <<>> \/ ~IsSpace(Head(s)) THEN s ELSE LStrip(Tail(s))

RECURSIVE RStrip(_)
RStrip(s) ==
    IF s = <<>> \/ ~IsSpace(s[Len(s)]) THEN s
    ELSE RStrip(SubSeq(s, 1, Len(s) - 1))

\* str.strip()
Strip(s) == RStrip(LStrip(s))

\* all sequences over S of length 0..n
RECURSIVE SeqsUpTo(_, _)
SeqsUpTo(S, n) ==
    IF n = 0 THEN {<<>>}
    ELSE LET shorter == SeqsUpTo(S, n - 1)
         IN  shorter \cup {Append(s, c) : s \in shorter, c \in S}

\* ------------------------------------------------------------ chunk_text
\* the texts chunk_text is tried on
ChunkTexts == SeqsUpTo({"a", " "}, MaxLen)

\* end = min(start + chunk_size, L)
WindowEnd(s, cs, L) == Min(s + cs, L)

\* a mutant of NextStart: the overlap is forgotten
NextStartNoOverlap(end, ov) == end

\* a mutant of NextStart: one character too far back
NextStartOneBack(end, ov) == Max(0, end - ov - 1)

\* start = max(0, end - overlap)
NextStart(end, ov) == Max(0, end - ov)

\* a mutant of ChunkBody: the chunk is appended untrimmed
ChunkBodyUntrimmed(t, cs, ov, s, acc) ==
    LET L == Len(t)
        end == WindowEnd(s, cs, L)
        chunk == Slice(t, s, end)
    IN  [chunks |-> IF chunk # <<>>
                    THEN Append(acc, [start |-> s, end |-> end, chunk |-> chunk])
                    ELSE acc,
         brk |-> (end = L),
         start |-> IF end = L THEN s ELSE NextStart(end, ov)]

\* the body of `while start < L` (lines 33-39) from start s with the chunks
\* acc: the chunks and start after it, and whether it left by `break`
ChunkBody(t, cs, ov, s, acc) ==
    LET L == Len(t)
        end == WindowEnd(s, cs, L)
        chunk == Strip(Slice(t, s, end))
    IN  [chunks |-> IF chunk # <<>>
                    THEN Append(acc, [start |-> s, end |-> end, chunk |-> chunk])
                    ELSE acc,
         brk |-> (end = L),
         start |-> IF end = L THEN s ELSE NextStart(end, ov)]

\* chunk_text(t, cs, ov) as a function, for the calls that terminate
RECURSIVE ChunkFrom(_, _, _, _, _)
ChunkFrom(t, cs, ov, s, acc) ==
    IF ~(s < Len(t)) THEN acc
    ELSE LET r == ChunkBody(t, cs, ov, s, acc)
         IN  IF r.brk THEN r.chunks ELSE ChunkFrom(t, cs, ov, r.start, r.chunks)

ChunkText(t, cs, ov) == ChunkFrom(t, cs, ov, 0, <<>>)

\* chunk_text up to its loop: chunks = [], start = 0, L = len(text)
ChunkEntry ==
    /\ text \in ChunkTexts
    /\ chunk_size \in 1..MaxChunkSize
    /\ overlap \in 0..MaxOverlap
    /\ start = 0
    /\ chunks = <<>>
    /\ ck_pc = "loop"

\* no call of chunk_text in progress
ChunkIdle ==
    /\ text = <<>>
    /\ chunk_size = CHUNK_CHARS
    /\ overlap = CHUNK_OVERLAP
    /\ start = 0
    /\ chunks = <<>>
    /\ ck_pc = "idle"

\* one iteration of `while start < L`
ChunkIter ==
    /\ ck_pc = "loop"
    /\ start < Len(text)
    /\ Len(chunks) < MaxChunks
    /\ LET r == ChunkBody(text, chunk_size, overlap, start, chunks)
       IN  /\ chunks' = r.chunks
           /\ start' = r.start
           /\ ck_pc' = IF r.brk THEN "done" ELSE ck_pc
    /\ UNCHANGED <<text, chunk_size, overlap>>
    /\ UNCHANGED <<vars_rag, vars_bot>>

\* the loop condition is false: return chunks
ChunkExit ==
    /\ ck_pc = "loop"
    /\ ~(start < Len(text))
    /\ ck_pc' = "done"
    /\ UNCHANGED <<text, chunk_size, overlap, start, chunks>>
    /\ UNCHANGED <<vars_rag, vars_bot>>

\* ----------------------------------------------------- the two artifacts
Missing == [kind |-> "missing"]
\* the `{}` written to index_path when faiss.write_index raised (l. 73-74)
Placeholder == [kind |-> "placeholder"]
\* a FAISS index: one row per text, in order; a row is the embedding of its
\* text, kept as that text
IndexOf(ts) == [kind |-> "index", rows |-> ts]
\* json.dump({"meta": meta, "texts": all_texts})
MetaOf(m, ts) == [kind |-> "meta", meta |-> m, texts |-> ts]

NoIndex == [kind |-> "none"]

\* ------------------------------------------------------------ documents
\* a .docx file: whether python-docx can open it, and its paragraphs
BadDoc == [readable |-> FALSE, paragraphs |-> <<>>]
BlankDoc == [readable |-> TRUE, paragraphs |-> << <<" ">> >>]
DocA == [readable |-> TRUE, paragraphs |-> << <<"a", " ">> >>]
DocAb == [readable |-> TRUE, paragraphs |-> << <<"A">>, <<>>, <<"b">> >>]
DocPool == {BadDoc, BlankDoc, DocA, DocAb}

\* the directory listings of Path(docs_dir).rglob("*.docx")
Corpora == SeqsUpTo(DocPool, MaxDocs)
\* the listings used where a rebuild runs beside a query
ReloadCorpora == {<<DocA>>, <<DocAb>>, <<DocA, DocAb>>}

\* the stem of the i-th file of a listing
Stems == <<"x", "y", "z", "w">>
StemOf(i) == Stems[i]

\* "\n".join(parts)
RECURSIVE JoinLines(_)
JoinLines(parts) ==
    IF parts = <<>> THEN <<>>
    ELSE IF Len(parts) = 1 THEN parts[1]
    ELSE parts[1] \o <<"\n">> \o JoinLines(Tail(parts))

\* [p.text.strip() for p in doc.paragraphs if p.text and p.text.strip()]
RECURSIVE StrippedParagraphs(_)
StrippedParagraphs(ps) ==
    IF ps = <<>> THEN <<>>
    ELSE IF Strip(ps[1]) # <<>>
         THEN <<Strip(ps[1])>> \o StrippedParagraphs(Tail(ps))
         ELSE StrippedParagraphs(Tail(ps))

\* docx_to_text of a file that opens
DocxToText(doc) == JoinLines(StrippedParagraphs(doc.paragraphs))

\* f"Документ: {p.stem}. "
Prefix(stem) == <<"D", ":", " ", stem, ".", " ">>

\* ----------------------------------------------------------- build_index
BuildIdle ==
    /\ b_docs = <<>>
    /\ b_i = 1
    /\ all_texts = <<>>
    /\ b_meta = <<>>
    /\ b_pc = "idle"

\* lines 49-58 for the i-th file, with n texts collected so far: the
\* (meta, text) pairs it adds
DocChunks(doc, i, n) ==
    LET cs == ChunkText(DocxToText(doc), CHUNK_CHARS, CHUNK_OVERLAP)
    IN  [k \in 1..Len(cs) |->
            [meta |-> [file |-> StemOf(i), start |-> cs[k].start,
                       end |-> cs[k].end, idx |-> n + k - 1],
             text |-> Prefix(StemOf(i)) \o cs[k].chunk]]

\* build_index is called: the model is loaded, the directory is listed.
\* Where `concurrent` is false a build starts only between two queries.
BuildStart(corpora, concurrent) ==
    /\ b_pc \in {"idle", "done", "failed"}
    /\ concurrent \/ q_pc = "idle"
    /\ \E c \in corpora : b_docs' = c
    /\ b_i' = 1
    /\ all_texts' = <<>>
    /\ b_meta' = <<>>
    /\ b_pc' = "scan"
    /\ UNCHANGED <<vars_bot, vars_chunk, vars_disk, vars_query>>

\* one iteration of `for p in ...rglob("*.docx")`: docx_to_text raises on a
\* file it cannot open, and nothing in build_index catches it
BuildDoc ==
    /\ b_pc = "scan"
    /\ b_i <= Len(b_docs)
    /\ IF ~b_docs[b_i].readable
       THEN /\ b_pc' = "failed"
            /\ UNCHANGED <<b_i, all_texts, b_meta>>
       ELSE LET new == DocChunks(b_docs[b_i], b_i, Len(all_texts))
            IN  /\ all_texts' = all_texts \o [k \in 1..Len(new) |-> new[k].text]
                /\ b_meta' = b_meta \o [k \in 1..Len(new) |-> new[k].meta]
                /\ b_i' = b_i + 1
                /\ b_pc' = b_pc
    /\ UNCHANGED b_docs
    /\ UNCHANGED <<vars_bot, vars_chunk, vars_disk, vars_query>>

\* lines 60-69: no text raises RuntimeError, else the texts are embedded
BuildEncode ==
    /\ b_pc = "scan"
    /\ b_i > Len(b_docs)
    /\ b_pc' = IF all_texts = <<>> THEN "failed" ELSE "write_index"
    /\ UNCHANGED <<b_docs, b_i, all_texts, b_meta>>
    /\ UNCHANGED <<vars_bot, vars_chunk, vars_disk, vars_query>>

\* lines 70-74: faiss.write_index, and when it raises the `{}` written in
\* its place
BuildWriteIndex ==
    /\ b_pc = "write_index"
    /\ \E ok \in BOOLEAN :
          IF ok
          THEN /\ index_file' = IndexOf(all_texts)
               /\ b_pc' = "write_meta"
          ELSE /\ index_file' = Placeholder
               /\ b_pc' = "retry_index"
    /\ UNCHANGED <<b_docs, b_i, all_texts, b_meta, meta_file>>
    /\ UNCHANGED <<vars_bot, vars_chunk, vars_query>>

\* line 75: the second faiss.write_index, whose exception propagates
BuildRetryWriteIndex ==
    /\ b_pc = "retry_index"
    /\ \E ok \in BOOLEAN :
          IF ok
          THEN /\ index_file' = IndexOf(all_texts)
               /\ b_pc' = "write_meta"
          ELSE /\ index_file' = index_file
               /\ b_pc' = "failed"
    /\ UNCHANGED <<b_docs, b_i, all_texts, b_meta, meta_file>>
    /\ UNCHANGED <<vars_bot, vars_chunk, vars_query>>

\* lines 79-84: the metadata and the texts are written
BuildWriteMeta ==
    /\ b_pc = "write_meta"
    /\ meta_file' = MetaOf(b_meta, all_texts)
    /\ b_pc' = "done"
    /\ UNCHANGED <<b_docs, b_i, all_texts, b_meta, index_file>>
    /\ UNCHANGED <<vars_bot, vars_chunk, vars_query>>

\* ------------------------------------------- load_index, retrieve, rag_answer
\* str.lower() on the characters of the model
Lower(c) ==
    CASE c = "A" -> "a" [] c = "B" -> "b" [] c = "D" -> "d"
      [] c = "E" -> "e" [] c = "L" -> "l" [] c = "S" -> "s"
      [] OTHER -> c
LowerStr(s) == [k \in 1..Len(s) |-> Lower(s[k])]

\* q in t
IsSubstr(q, t) ==
    \E k \in 0..(Len(t) - Len(q)) : SubSeq(t, k + 1, k + Len(q)) = q

\* the queries tried: the empty one, one matching in another case, one
\* matching a single document, one matching nothing
Queries == {<<>>, <<"A">>, <<"b">>, <<"c">>}
TopKs == (1..MaxTopK) \cup {TOP_K}
\* cosine similarities, in hundredths: under, at and over the floor
SimScores == {20, 50, 80}
\* the cross-encoder's scores: raw logits, not bounded by 999
RerankScores == {-5, 1000}
\* the inputs used where a rebuild runs beside a query
ReloadQueries == {<<"b">>}
ReloadTopKs == {TOP_K}
ReloadSims == {80}
ReloadReranks == {3}

QueryIdle ==
    /\ query = <<>>
    /\ top_k = TOP_K
    /\ index = NoIndex
    /\ meta = <<>>
    /\ texts = <<>>
    /\ row_scores = <<>>
    /\ exact_hits = <<>>
    /\ retrieved = <<>>
    /\ combined = <<>>
    /\ q_pc = "idle"
    /\ outcome = "none"

\* the first n elements of s: s[:n]
Take(s, n) == SubSeq(s, 1, Min(n, Len(s)))

\* a mutant of SearchOrders: the rows come back in any order
SearchOrdersAny(n, sc) ==
    {o \in [1..n -> 1..n] : \A a, b \in 1..n : a # b => o[a] # o[b]}

\* the orders in which index.search may return n rows scored sc: by
\* non-increasing score, rows of equal score in any order
SearchOrders(n, sc) ==
    {o \in [1..n -> 1..n] :
        /\ \A a, b \in 1..n : a # b => o[a] # o[b]
        /\ \A a \in 1..(n - 1) : sc[o[a]] >= sc[o[a + 1]]}

\* a mutant of AboveFloor: the similarity floor is not applied
AboveFloorAlways(score) == TRUE

\* the test of line 103, `score<0.5: continue`, on a row that exists
AboveFloor(score) == ~(score < ScoreFloor)

\* the rows retrieve keeps, in order: the top k of order o that pass line 103
RECURSIVE KeptRows(_, _, _)
KeptRows(o, sc, k) ==
    IF k = 0 \/ o = <<>> THEN <<>>
    ELSE IF AboveFloor(sc[o[1]])
         THEN <<o[1]>> \o KeptRows(Tail(o), sc, k - 1)
         ELSE KeptRows(Tail(o), sc, k - 1)

\* lines 140-143: the exact hits over zip(meta, texts)
ExactHits(q, m, t) ==
    LET n == Min(Len(m), Len(t))
        hit == {k \in 1..n : IsSubstr(LowerStr(q), LowerStr(t[k]))}
        F[k \in 0..n] ==
            IF k = 0 THEN <<>>
            ELSE IF k \in hit
                 THEN Append(F[k - 1], [meta |-> m[k], text |-> t[k],
                                        rerank_score |-> ExactScore])
                 ELSE F[k - 1]
    IN  F[n]

\* x put into the list s, sorted by non-increasing rerank_score, behind
\* every element whose score is not smaller
RECURSIVE InsertDesc(_, _)
InsertDesc(s, x) ==
    IF s = <<>> THEN <<x>>
    ELSE IF s[1].rerank_score >= x.rerank_score
         THEN <<s[1]>> \o InsertDesc(Tail(s), x)
         ELSE <<x>> \o s

\* a mutant of SortedByRerank: the merged list is left in the order of the
\* concatenation
SortedByRerankNot(s) == s

\* sorted(s, key=lambda x: x["rerank_score"], reverse=True): stable
SortedByRerank(s) ==
    LET F[k \in 0..Len(s)] == IF k = 0 THEN <<>> ELSE InsertDesc(F[k - 1], s[k])
    IN  F[Len(s)]

\* rag_answer is called with a query and top_k; the embedder is loaded
RagStart(qs, ks, concurrent) ==
    /\ q_pc = "idle"
    /\ concurrent \/ b_pc \in {"idle", "done", "failed"}
    /\ \E q \in qs, k \in ks :
          /\ query' = q
          /\ top_k' = k
    /\ q_pc' = "read_index"
    /\ outcome' = "none"
    /\ UNCHANGED <<index, meta, texts, row_scores, exact_hits, retrieved, combined>>
    /\ UNCHANGED <<vars_bot, vars_chunk, vars_disk, vars_build>>

\* load_index, line 89: faiss.read_index raises on a missing file and on
\* one that is no FAISS index
LoadIndexFile ==
    /\ q_pc = "read_index"
    /\ IF index_file.kind = "index"
       THEN /\ index' = index_file
            /\ q_pc' = "read_meta"
            /\ outcome' = outcome
       ELSE /\ index' = index
            /\ q_pc' = "done"
            /\ outcome' = "load_raised"
    /\ UNCHANGED <<query, top_k, meta, texts, row_scores, exact_hits, retrieved, combined>>
    /\ UNCHANGED <<vars_bot, vars_chunk, vars_disk, vars_build>>

\* load_index, lines 90-92: open raises on a missing file; nothing compares
\* the lengths of what was read
LoadMetaFile ==
    /\ q_pc = "read_meta"
    /\ IF meta_file.kind = "meta"
       THEN /\ meta' = meta_file.meta
            /\ texts' = meta_file.texts
            /\ q_pc' = "retrieve"
            /\ outcome' = outcome
       ELSE /\ UNCHANGED <<meta, texts>>
            /\ q_pc' = "done"
            /\ outcome' = "load_raised"
    /\ UNCHANGED <<query, top_k, index, row_scores, exact_hits, retrieved, combined>>
    /\ UNCHANGED <<vars_bot, vars_chunk, vars_disk, vars_build>>

\* lines 140-146: the exact scan, then retrieve (lines 94-108): the query is
\* embedded, the rows are scored, and texts[idx], meta[idx] raise IndexError
\* for a kept row the lists do not have
RagRetrieve(sims) ==
    /\ q_pc = "retrieve"
    /\ exact_hits' = ExactHits(query, meta, texts)
    /\ LET n == Len(index.rows)
       IN  \E sc \in [1..n -> sims] :
           \E o \in SearchOrders(n, sc) :
              LET kept == KeptRows(o, sc, top_k)
              IN  /\ row_scores' = sc
                  /\ IF \E j \in 1..Len(kept) : kept[j] > Len(texts) \/ kept[j] > Len(meta)
                     THEN /\ retrieved' = retrieved
                          /\ q_pc' = "done"
                          /\ outcome' = "retrieve_raised"
                     ELSE /\ retrieved' = [j \in 1..Len(kept) |->
                                              [score |-> sc[kept[j]],
                                               text |-> texts[kept[j]],
                                               meta |-> meta[kept[j]]]]
                          /\ q_pc' = "rerank"
                          /\ outcome' = outcome
    /\ UNCHANGED <<query, top_k, index, meta, texts, combined>>
    /\ UNCHANGED <<vars_bot, vars_chunk, vars_disk, vars_build>>

\* lines 148-186: the cross-encoder scores each retrieved text, the two
\* lists are joined, sorted and cut to top_k, and the list is returned
RagRerank(reranks) ==
    /\ q_pc = "rerank"
    /\ \E scores \in [1..Len(retrieved) -> reranks] :
          LET scored == [j \in 1..Len(retrieved) |->
                            [score |-> retrieved[j].score,
                             text |-> retrieved[j].text,
                             meta |-> retrieved[j].meta,
                             rerank_score |-> scores[j]]]
          IN  /\ retrieved' = scored
              /\ combined' = Take(SortedByRerank(exact_hits \o scored), top_k)
    /\ q_pc' = "done"
    /\ outcome' = "returned"
    /\ UNCHANGED <<query, top_k, index, meta, texts, row_scores, exact_hits>>
    /\ UNCHANGED <<vars_bot, vars_chunk, vars_disk, vars_build>>

\* the caller has the result (or the exception); the locals are dropped
RagReturn ==
    /\ q_pc = "done"
    /\ query' = <<>>
    /\ top_k' = TOP_K
    /\ index' = NoIndex
    /\ meta' = <<>>
    /\ texts' = <<>>
    /\ row_scores' = <<>>
    /\ exact_hits' = <<>>
    /\ retrieved' = <<>>
    /\ combined' = <<>>
    /\ q_pc' = "idle"
    /\ outcome' = "none"
    /\ UNCHANGED <<vars_bot, vars_chunk, vars_disk, vars_build>>

\* ------------------------------------------------- bot.py: the documents
\* texts of files: one over MinDocChars characters, one under
LongText == <<"l", "e", "s", " ", "o", "z", "e", "r", "o", " ", "b", "o", "r">>
ShortText == <<"L", "e", "s">>

\* a file os.walk yields: its name, its extension, its parts (the pages of
\* a PDF, the paragraphs of a DOCX, the content of a TXT) and the part at
\* which reading raises (0: none)
FileLong == [file |-> "long.txt", ext |-> "txt", parts |-> <<LongText>>, fails_at |-> 0]
FileShort == [file |-> "short.docx", ext |-> "docx", parts |-> <<ShortText, <<>>>>, fails_at |-> 0]
FileBad == [file |-> "bad.pdf", ext |-> "pdf", parts |-> <<LongText>>, fails_at |-> 1]
FileTorn == [file |-> "torn.pdf", ext |-> "pdf", parts |-> <<LongText, ShortText>>, fails_at |-> 2]
FilePool == {FileLong, FileShort, FileBad, FileTorn}
Listings == SeqsUpTo(FilePool, MaxFiles)

\* the parts read before the exception, each non-empty one followed by "\n"
RECURSIVE PartsText(_, _, _)
PartsText(parts, k, stop) ==
    IF k > Len(parts) \/ k = stop THEN <<>>
    ELSE (IF parts[k] # <<>> THEN parts[k] \o <<"\n">> ELSE <<>>)
         \o PartsText(parts, k + 1, stop)

\* extract_text_from_file: the exception is logged and `text` is returned
\* as far as it was built
ExtractText(f) ==
    IF f.ext = "txt"
    THEN IF f.fails_at = 0 THEN f.parts[1] ELSE <<>>
    ELSE PartsText(f.parts, 1, f.fails_at)

\* lines 97-108 over a list of files: the documents appended
RECURSIVE Ingested(_)
Ingested(files) ==
    IF files = <<>> THEN <<>>
    ELSE LET t == ExtractText(files[1])
         IN  (IF t # <<>> /\ Len(Strip(t)) > MinDocChars
              THEN <<[file |-> files[1].file, text |-> t, size |-> Len(t)]>>
              ELSE <<>>)
             \o Ingested(Tail(files))

\* -------------------------------------------------------- load_documents
SearchNew ==
    /\ documents = <<>>
    /\ loaded = FALSE
    /\ loading = FALSE
    /\ error = "None"

LoadNotStarted ==
    /\ l_files = <<>>
    /\ l_i = 1
    /\ l_pc = "start"

\* line 71: self.loading = True
LoadBegin ==
    /\ l_pc = "start"
    /\ loading' = TRUE
    /\ l_pc' = "clear_error"
    /\ UNCHANGED <<documents, loaded, error, l_files, l_i>>
    /\ UNCHANGED <<api_key, vars_handle, vars_chunk, vars_rag>>

\* line 72: self.error = None
LoadClearError ==
    /\ l_pc = "clear_error"
    /\ error' = "None"
    /\ l_pc' = "reset"
    /\ UNCHANGED <<documents, loaded, loading, l_files, l_i>>
    /\ UNCHANGED <<api_key, vars_handle, vars_chunk, vars_rag>>

\* a mutant of LoadReset: the list is emptied and already marked loaded
LoadResetMarksLoaded ==
    /\ l_pc = "reset"
    /\ documents' = <<>>
    /\ loaded' = TRUE
    /\ \E fs \in Listings : l_files' = fs
    /\ l_i' = 1
    /\ l_pc' = "walk"
    /\ UNCHANGED <<loading, error>>
    /\ UNCHANGED <<api_key, vars_handle, vars_chunk, vars_rag>>

\* lines 75-84: self.documents = [], and os.walk lists the files
LoadReset ==
    /\ l_pc = "reset"
    /\ documents' = <<>>
    /\ \E fs \in Listings : l_files' = fs
    /\ l_i' = 1
    /\ l_pc' = "walk"
    /\ UNCHANGED <<loaded, loading, error>>
    /\ UNCHANGED <<api_key, vars_handle, vars_chunk, vars_rag>>

\* lines 88-108 for one file: its text is extracted and, when there is
\* enough of it, appended; an exception raised in the loop outside
\* extract_text_from_file leaves for the except clause
LoadFile ==
    /\ l_pc = "walk"
    /\ l_i <= Len(l_files)
    /\ \E raises \in BOOLEAN :
          IF raises
          THEN /\ l_pc' = "except"
               /\ UNCHANGED <<documents, l_i>>
          ELSE /\ documents' = documents \o Ingested(<<l_files[l_i]>>)
               /\ l_i' = l_i + 1
               /\ l_pc' = l_pc
    /\ UNCHANGED <<loaded, loading, error, l_files>>
    /\ UNCHANGED <<api_key, vars_handle, vars_chunk, vars_rag>>

\* line 110: self.loaded = True
LoadFinish ==
    /\ l_pc = "walk"
    /\ l_i > Len(l_files)
    /\ loaded' = TRUE
    /\ l_pc' = "finally"
    /\ UNCHANGED <<documents, loading, error, l_files, l_i>>
    /\ UNCHANGED <<api_key, vars_handle, vars_chunk, vars_rag>>

\* lines 113-115: self.error = str(e), which may be the empty string
LoadExcept ==
    /\ l_pc = "except"
    /\ error' \in {"load failed", ""}
    /\ l_pc' = "finally"
    /\ UNCHANGED <<documents, loaded, loading, l_files, l_i>>
    /\ UNCHANGED <<api_key, vars_handle, vars_chunk, vars_rag>>

\* line 117: self.loading = False
LoadFinally ==
    /\ l_pc = "finally"
    /\ loading' = FALSE
    /\ l_pc' = "done"
    /\ UNCHANGED <<documents, loaded, error, l_files, l_i>>
    /\ UNCHANGED <<api_key, vars_handle, vars_chunk, vars_rag>>

\* ------------------------------------------------------ search_documents
\* the words of s: s.split()
RECURSIVE SplitFrom(_, _, _)
SplitFrom(s, k, word) ==
    IF k > Len(s) THEN (IF word # <<>> THEN <<word>> ELSE <<>>)
    ELSE IF IsSpace(s[k])
         THEN (IF word # <<>> THEN <<word>> ELSE <<>>) \o SplitFrom(s, k + 1, <<>>)
         ELSE SplitFrom(s, k + 1, Append(word, s[k]))

SplitWords(s) == SplitFrom(s, 1, <<>>)

\* [word for word in query_lower.split() if len(word) > 2]
Keywords(q) == SelectSeq(SplitWords(LowerStr(q)), LAMBDA w : Len(w) > MinKeywordLen)

\* sum(1 for word in keywords if word in text_lower)
RECURSIVE CountMatches(_, _)
CountMatches(kws, t) ==
    IF kws = <<>> THEN 0
    ELSE (IF IsSubstr(kws[1], LowerStr(t)) THEN 1 ELSE 0) + CountMatches(Tail(kws), t)

\* a mutant of InsertByScore: x goes before the elements of equal score
RECURSIVE InsertByScoreUnstable(_, _)
InsertByScoreUnstable(s, x) ==
    IF s = <<>> THEN <<x>>
    ELSE IF s[1].score > x.score
         THEN <<s[1]>> \o InsertByScoreUnstable(Tail(s), x)
         ELSE <<x>> \o s

\* x put into the list s, sorted by non-increasing score, behind every
\* element whose score is not smaller
RECURSIVE InsertByScore(_, _)
InsertByScore(s, x) ==
    IF s = <<>> THEN <<x>>
    ELSE IF s[1].score >= x.score
         THEN <<s[1]>> \o InsertByScore(Tail(s), x)
         ELSE <<x>> \o s

\* results.sort(key=lambda x: x['score'], reverse=True): stable
SortedByScore(s) ==
    LET F[k \in 0..Len(s)] == IF k = 0 THEN <<>> ELSE InsertByScore(F[k - 1], s[k])
    IN  F[Len(s)]

\* search_documents(query) on the fields as they are; the snippet of a
\* result is left out
SearchDocuments(q) ==
    IF ~loaded \/ documents = <<>> THEN <<>>
    ELSE LET kws == Keywords(q)
             F[k \in 0..Len(documents)] ==
                 IF k = 0 THEN <<>>
                 ELSE IF CountMatches(kws, documents[k].text) > 0
                      THEN Append(F[k - 1],
                                  [file |-> documents[k].file,
                                   full_text |-> documents[k].text,
                                   score |-> CountMatches(kws, documents[k].text)])
                      ELSE F[k - 1]
         IN  Take(SortedByScore(F[Len(documents)]), MaxResults)

\* -------------------------------------------------------- handle_message
\* message.text: a keyword of the documents in another case, a word of no
\* document, one character, a word too short to be a keyword
MessageTexts == {<<" ", "L", "E", "S", " ">>, <<"n", "e", "t">>, <<"x">>, <<"l", "e">>}

\* how the request of ask_deepseek may end: a 200 with content, a 200
\* with empty content, another status, an exception (a timeout too)
DeepseekOutcomes == {"content", "empty", "status", "raised"}

NoAnswer == [kind |-> "none"]
NotAsked == [answer |-> FALSE, error |-> "None"]

HandleIdle ==
    /\ user_query = <<>>
    /\ search_results = <<>>
    /\ deepseek = NotAsked
    /\ full_answer = NoAnswer
    /\ reply = NoAnswer
    /\ h_pc = "idle"

\* ask_deepseek(query, context): (answer, None) or (None, error)
AskDeepseek(key, how) ==
    IF ~key THEN [answer |-> FALSE, error |-> "not configured"]
    ELSE CASE how = "content" -> [answer |-> TRUE, error |-> "None"]
           [] how = "empty" -> [answer |-> FALSE, error |-> "None"]
           [] how = "status" -> [answer |-> FALSE, error |-> "api status"]
           [] OTHER -> [answer |-> FALSE, error |-> "connection"]

\* ", ".join(set(result['file'] for result in search_results))
Sources(results) == {results[k].file : k \in 1..Len(results)}

\* a mutant of FullAnswer: without an answer of DeepSeek its error is sent
FullAnswerOrError(key, ds, results) ==
    IF key /\ ~ds.answer
    THEN [kind |-> "generator_error", results |-> <<>>, sources |-> {}]
    ELSE [kind |-> IF key THEN "deepseek" ELSE "simple",
          results |-> results, sources |-> Sources(results)]

\* lines 497-521: full_answer, from DeepSeek's answer or from
\* generate_simple_answer, followed by the sources
FullAnswer(key, ds, results) ==
    [kind |-> IF key /\ ds.answer THEN "deepseek" ELSE "simple",
     results |-> results,
     sources |-> Sources(results)]

\* a message arrives: bot.send_chat_action
HandleStart ==
    /\ h_pc = "idle"
    /\ \E m \in MessageTexts : user_query' = m
    /\ h_pc' = "check_loading"
    /\ UNCHANGED <<search_results, deepseek, full_answer, reply>>
    /\ UNCHANGED <<api_key, vars_search, vars_load, vars_chunk, vars_rag>>

\* lines 471-473
HandleCheckLoading ==
    /\ h_pc = "check_loading"
    /\ IF loading
       THEN /\ reply' = [kind |-> "loading"]
            /\ h_pc' = "replied"
       ELSE /\ reply' = reply
            /\ h_pc' = "check_loaded"
    /\ UNCHANGED <<user_query, search_results, deepseek, full_answer>>
    /\ UNCHANGED <<api_key, vars_search, vars_load, vars_chunk, vars_rag>>

\* line 475
HandleCheckLoaded ==
    /\ h_pc = "check_loaded"
    /\ h_pc' = IF ~loaded THEN "check_error" ELSE "search"
    /\ UNCHANGED <<user_query, search_results, deepseek, full_answer, reply>>
    /\ UNCHANGED <<api_key, vars_search, vars_load, vars_chunk, vars_rag>>

\* lines 476-480
HandleCheckError ==
    /\ h_pc = "check_error"
    /\ reply' = IF error # "None" /\ error # ""
                THEN [kind |-> "load_error"]
                ELSE [kind |-> "not_loaded"]
    /\ h_pc' = "replied"
    /\ UNCHANGED <<user_query, search_results, deepseek, full_answer>>
    /\ UNCHANGED <<api_key, vars_search, vars_load, vars_chunk, vars_rag>>

\* lines 482-494: the query is trimmed, a short one is refused, the
\* documents are searched, and no result is answered at once
HandleSearch ==
    /\ h_pc = "search"
    /\ LET q == Strip(user_query)
           found == SearchDocuments(q)
       IN  IF Len(q) < MinQueryLen
           THEN /\ reply' = [kind |-> "too_short"]
                /\ h_pc' = "replied"
                /\ UNCHANGED search_results
           ELSE /\ search_results' = found
                /\ IF found = <<>>
                   THEN /\ reply' = [kind |-> "no_results"]
                        /\ h_pc' = "replied"
                   ELSE /\ reply' = reply
                        /\ h_pc' = "generate"
    /\ UNCHANGED <<user_query, deepseek, full_answer>>
    /\ UNCHANGED <<api_key, vars_search, vars_load, vars_chunk, vars_rag>>

\* lines 497-521: DeepSeek is asked when the key is set
HandleGenerate ==
    /\ h_pc = "generate"
    /\ \E how \in DeepseekOutcomes :
          LET ds == IF api_key THEN AskDeepseek(api_key, how) ELSE NotAsked
          IN  /\ deepseek' = ds
              /\ full_answer' = FullAnswer(api_key, ds, search_results)
    /\ h_pc' = "send"
    /\ UNCHANGED <<user_query, search_results, reply>>
    /\ UNCHANGED <<api_key, vars_search, vars_load, vars_chunk, vars_rag>>

\* lines 524-533: the answer is sent; when reply_to raises, the error
\* message is
HandleSend ==
    /\ h_pc = "send"
    /\ \E sent \in BOOLEAN :
          reply' = IF sent THEN full_answer ELSE [kind |-> "send_error"]
    /\ h_pc' = "replied"
    /\ UNCHANGED <<user_query, search_results, deepseek, full_answer>>
    /\ UNCHANGED <<api_key, vars_search, vars_load, vars_chunk, vars_rag>>

\* the handler returns
HandleReturn ==
    /\ h_pc = "replied"
    /\ user_query' = <<>>
    /\ search_results' = <<>>
    /\ deepseek' = NotAsked
    /\ full_answer' = NoAnswer
    /\ reply' = NoAnswer
    /\ h_pc' = "idle"
    /\ UNCHANGED <<api_key, vars_search, vars_load, vars_chunk, vars_rag>>

\* no bot running
BotIdle ==
    /\ api_key = FALSE
    /\ SearchNew
    /\ LoadNotStarted
    /\ HandleIdle

\* -------------------------------------------------------- specifications
\* one call of chunk_text
InitChunk ==
    /\ ChunkEntry
    /\ index_file = Missing /\ meta_file = Missing
    /\ BuildIdle
    /\ QueryIdle
    /\ BotIdle

NextChunk == ChunkIter \/ ChunkExit

SpecChunk == InitChunk /\ [][NextChunk]_vars

\* chunk_text runs in the thread that called it and nothing suspends it: a
\* step that is possible is taken
SpecChunkFair == SpecChunk /\ WF_vars(NextChunk)

\* nothing built yet, no call in progress
Init ==
    /\ ChunkIdle
    /\ index_file = Missing /\ meta_file = Missing
    /\ BuildIdle
    /\ QueryIdle
    /\ BotIdle

\* builds and queries one after the other, as the script at the end of
\* RAG.py runs them
Next ==
    \/ BuildStart(Corpora, FALSE)
    \/ BuildDoc
    \/ BuildEncode
    \/ BuildWriteIndex
    \/ BuildRetryWriteIndex
    \/ BuildWriteMeta
    \/ RagStart(Queries, TopKs, FALSE)
    \/ LoadIndexFile
    \/ LoadMetaFile
    \/ RagRetrieve(SimScores)
    \/ RagRerank(RerankScores)
    \/ RagReturn

Spec == Init /\ [][Next]_vars

\* a rebuild running beside a query
NextReload ==
    \/ BuildStart(ReloadCorpora, TRUE)
    \/ BuildDoc
    \/ BuildEncode
    \/ BuildWriteIndex
    \/ BuildRetryWriteIndex
    \/ BuildWriteMeta
    \/ RagStart(ReloadQueries, ReloadTopKs, TRUE)
    \/ LoadIndexFile
    \/ LoadMetaFile
    \/ RagRetrieve(ReloadSims)
    \/ RagRerank(ReloadReranks)
    \/ RagReturn

SpecReload == Init /\ [][NextReload]_vars

\* bot.py is imported: doc_search is new, the thread is started, and
\* messages are handled beside it
InitBot ==
    /\ ChunkIdle
    /\ index_file = Missing /\ meta_file = Missing
    /\ BuildIdle
    /\ QueryIdle
    /\ api_key \in BOOLEAN
    /\ SearchNew
    /\ LoadNotStarted
    /\ HandleIdle

NextBot ==
    \/ LoadBegin
    \/ LoadClearError
    \/ LoadReset
    \/ LoadFile
    \/ LoadFinish
    \/ LoadExcept
    \/ LoadFinally
    \/ HandleStart
    \/ HandleCheckLoading
    \/ HandleCheckLoaded
    \/ HandleCheckError
    \/ HandleSearch
    \/ HandleGenerate
    \/ HandleSend
    \/ HandleReturn

SpecBot == InitBot /\ [][NextBot]_vars

\* ------------------------------------------- search_documents called alone
\* texts of loaded documents, each over MinDocChars characters: one with
\* the words les and bor, one with les only (in another case), one with
\* neither
TextLes == <<"L", "e", "s", ",", " ", "l", "e", "s", ",", " ", "l", "e", "s">>
TextLug == <<"o", "z", "e", "r", "o", " ", "i", " ", "l", "u", "g", " ", "i">>
SearchTexts == {LongText, TextLes, TextLug}

FileNames == <<"a.txt", "b.txt", "c.txt", "d.txt", "e.txt", "f.txt">>

\* the listings of the search runs: .txt files that all read
SearchListings ==
    {[k \in 1..Len(ts) |->
         [file |-> FileNames[k], ext |-> "txt", parts |-> <<ts[k]>>, fails_at |-> 0]] :
       ts \in SeqsUpTo(SearchTexts, MaxSearchDocs)}

\* the queries: two keywords, one keyword in capitals, a keyword and a word
\* too short, words too short only, a keyword given twice, a keyword of no
\* document
SearchQueries ==
    {<<"l", "e", "s", " ", "b", "o", "r">>, <<" ", "L", "E", "S", " ">>, <<"b", "o", "r", " ", "l", "e">>,
     <<"l", "e", " ", "s">>, <<"l", "e", "s", " ", "l", "e", "s">>, <<"n", "e", "t">>}

\* load_documents has run to its end over some listing
LoadCompleted ==
    /\ l_files \in SearchListings
    /\ l_i = Len(l_files) + 1
    /\ l_pc = "done"
    /\ documents = Ingested(l_files)
    /\ loaded = TRUE
    /\ loading = FALSE
    /\ error = "None"

\* doc_search.search_documents(query) is called and returns
SearchCall ==
    /\ h_pc = "idle"
    /\ \E q \in SearchQueries :
          /\ user_query' = q
          /\ search_results' = SearchDocuments(q)
    /\ h_pc' = "searched"
    /\ UNCHANGED <<deepseek, full_answer, reply>>
    /\ UNCHANGED <<api_key, vars_search, vars_load, vars_chunk, vars_rag>>

\* the caller drops the result
SearchForget ==
    /\ h_pc = "searched"
    /\ user_query' = <<>>
    /\ search_results' = <<>>
    /\ h_pc' = "idle"
    /\ UNCHANGED <<deepseek, full_answer, reply>>
    /\ UNCHANGED <<api_key, vars_search, vars_load, vars_chunk, vars_rag>>

InitSearch ==
    /\ ChunkIdle
    /\ index_file = Missing /\ meta_file = Missing
    /\ BuildIdle
    /\ QueryIdle
    /\ api_key = FALSE
    /\ LoadCompleted
    /\ HandleIdle

NextSearch == SearchCall \/ SearchForget

SpecSearch == InitSearch /\ [][NextSearch]_vars

\* ------------------------------------------------- chunk_text: properties
GoodCfg == overlap < chunk_size

\* position p of the text lies in an emitted span
Covered(p) == \E i \in 1..Len(chunks) : chunks[i].start <= p /\ p < chunks[i].end

\* text[i:j] holds whitespace only
Blank(i, j) == \A p \in i..(j - 1) : p < Len(text) => IsSpace(text[p + 1])

HasSpace == \E p \in 1..Len(text) : IsSpace(text[p])

CoversText == \A p \in 0..(Len(text) - 1) : Covered(p)

ExactOverlap ==
    \A i \in 1..(Len(chunks) - 1) : chunks[i + 1].start = chunks[i].end - overlap

StartsNonDecreasing ==
    \A i \in 1..(Len(chunks) - 1) : chunks[i].start <= chunks[i + 1].start

TrimmedNonEmpty ==
    \A i \in 1..Len(chunks) :
        /\ chunks[i].chunk # <<>>
        /\ chunks[i].chunk = Strip(Slice(text, chunks[i].start, chunks[i].end))

\* C5 (as claimed): a call of chunk_text with overlap >= chunk_size fails
\* with a configuration error: it neither returns normally nor emits a
\* chunk, for any text.
C5_BadOverlapIsRejected ==
    ~GoodCfg => (ck_pc # "done" /\ chunks = <<>>)

\* C6 (as claimed): with 0 <= overlap < chunk_size the spans returned cover
\* [0, len(text)), consecutive spans overlap by exactly `overlap`, starts
\* are non-decreasing and every chunk is non-empty after trimming.
C6_SpansCoverWithExactOverlap ==
    (ck_pc = "done" /\ GoodCfg) =>
        CoversText /\ ExactOverlap /\ StartsNonDecreasing /\ TrimmedNonEmpty

\* C6 (amended): with 0 <= overlap < chunk_size the spans returned cover
\* every non-whitespace character of the text; the next span starts at
\* previous.end - overlap, or later by a multiple of chunk_size - overlap
\* when the text from previous.end - overlap to next.start + overlap is all
\* whitespace (whitespace-only windows are dropped); starts strictly
\* increase; every chunk is the non-empty trimmed text of its span; and a
\* text without whitespace is covered with exactly the configured overlap.
C6_SpansCoverNonBlankText ==
    (ck_pc = "done" /\ GoodCfg) =>
        /\ \A p \in 0..(Len(text) - 1) : Covered(p) \/ IsSpace(text[p + 1])
        /\ \A i \in 1..(Len(chunks) - 1) :
              LET gap == chunks[i + 1].start - (chunks[i].end - overlap)
              IN  /\ gap >= 0
                  /\ gap % (chunk_size - overlap) = 0
                  /\ gap > 0 => Blank(chunks[i].end - overlap,
                                      chunks[i + 1].start + overlap)
                  /\ chunks[i].start < chunks[i + 1].start
        /\ TrimmedNonEmpty
        /\ ~HasSpace => (CoversText /\ ExactOverlap)

\* C6 witness: a finished call with a good configuration that returned two
\* spans around a dropped whitespace-only window.
C6_Witness ==
    /\ ck_pc = "done" /\ GoodCfg /\ overlap > 0
    /\ Len(chunks) >= 2
    /\ \E i \in 1..(Len(chunks) - 1) :
          chunks[i + 1].start > chunks[i].end - overlap

\* C7 (as claimed): a text shorter than chunk_size yields exactly one chunk,
\* equal to the trimmed text.
C7_ShortTextOneChunk ==
    (ck_pc = "done" /\ Len(text) < chunk_size) =>
        (Len(chunks) = 1 /\ chunks[1].chunk = Strip(text))

\* C7 (amended): a text shorter than chunk_size whose trimmed text is not
\* empty yields exactly one chunk, the trimmed text with span (0, len(text));
\* an empty or whitespace-only text yields no chunk.
C7_ShortTextOneChunkUnlessBlank ==
    (ck_pc = "done" /\ Len(text) < chunk_size) =>
        IF Strip(text) # <<>>
        THEN /\ Len(chunks) = 1
             /\ chunks[1] = [start |-> 0, end |-> Len(text), chunk |-> Strip(text)]
        ELSE chunks = <<>>

\* C7 witness: a short text with surrounding whitespace returned as one
\* trimmed chunk.
C7_Witness ==
    /\ ck_pc = "done" /\ Len(text) < chunk_size
    /\ Len(chunks) = 1 /\ chunks[1].chunk # text

\* ------------------------------------------------ the pipeline: properties
\* load_index returned: both artifacts were read
Loaded == q_pc \in {"retrieve", "rerank"} \/ (q_pc = "done" /\ outcome # "load_raised")

\* the query occurs, case-insensitively, in the text t
Matches(t) == IsSubstr(LowerStr(query), LowerStr(t))

\* C1 (as claimed): a query that runs beside a rebuild uses the vectors,
\* the meta and the texts of one build: the rows of the index it read are
\* the embeddings of the texts it read, row by row, and every text has its
\* meta.
C1_QuerySeesOneGeneration ==
    Loaded => (index.rows = texts /\ Len(meta) = Len(texts))

\* C2 (as claimed): when the query occurs case-insensitively in some
\* fragment's text, the first element of the list rag_answer returns is a
\* fragment containing it, whatever the similarity and reranker scores.
C2_ExactMatchRankedFirst ==
    (q_pc = "done" /\ outcome = "returned"
       /\ \E k \in 1..Len(texts) : Matches(texts[k]))
    => (combined # <<>> /\ Matches(combined[1].text))

\* C3: on a loaded index in which no row scores at or above the floor and
\* no text contains the query, rag_answer returns the empty list and raises
\* nothing; and a call whose index could not be loaded never returns: it
\* ends in the exception of load_index.
C3_NoRelevantResultsIsEmptyReturn ==
    /\ (q_pc = "done" /\ outcome # "load_raised"
          /\ \A r \in 1..Len(row_scores) : row_scores[r] < ScoreFloor
          /\ \A k \in 1..Len(texts) : ~Matches(texts[k]))
       => (outcome = "returned" /\ combined = <<>>)
    /\ (q_pc = "done" /\ (index = NoIndex \/ texts = <<>>))
       => (outcome = "load_raised" /\ combined = <<>>)

\* C3 witness: a query returned the empty list from a loaded index whose
\* rows all score under the floor.
C3_Witness ==
    /\ q_pc = "done" /\ outcome = "returned" /\ combined = <<>>
    /\ index.kind = "index" /\ Len(row_scores) = Len(index.rows)
    /\ Len(row_scores) >= 2
    /\ \A r \in 1..Len(row_scores) : row_scores[r] < ScoreFloor

\* C8 (as claimed): load_index rejects artifacts whose lengths differ, so
\* what it returns, and what retrieve then runs on, has as many rows as
\* texts and as many texts as meta entries.
C8_LoadRejectsMismatch ==
    Loaded => (Len(index.rows) = Len(texts) /\ Len(texts) = Len(meta))

\* the i-th document of the listing opens and has text
Ingestable(i) == b_docs[i].readable /\ DocxToText(b_docs[i]) # <<>>

\* C9 (as claimed): a document that cannot be read or is empty is skipped
\* and the others are ingested: the build never ends inside its loop over
\* the documents, and once the loop is over every document that opens and
\* has text has its fragment among the texts.
C9_FailingDocumentIsSkipped ==
    /\ b_pc = "failed" => b_i > Len(b_docs)
    /\ b_pc \in {"write_index", "retry_index", "write_meta", "done", "failed"} =>
          \A i \in 1..Len(b_docs) :
              Ingestable(i) =>
                  \E k \in 1..Len(all_texts) :
                      all_texts[k] = Prefix(StemOf(i)) \o DocxToText(b_docs[i])

\* ----------------------------------------------------- the bot: properties
\* C4: under every interleaving of the load_documents thread with
\* handle_message, the 'nothing found' message and an answer from search
\* results are sent only once the load has completed (loaded is true and
\* documents holds every document the load ingests); as long as loaded is
\* false (the load has not started, is running or has failed) the reply is
\* one of the not-ready messages.
C4_ZeroResultsOnlyAfterLoad ==
    /\ (h_pc \in {"generate", "send", "replied"}
          /\ (reply.kind \in {"no_results", "deepseek", "simple", "send_error"}
                \/ search_results # <<>>))
       => (loaded /\ l_pc \in {"finally", "done"} /\ documents = Ingested(l_files))
    /\ (h_pc = "replied" /\ ~loaded)
       => reply.kind \in {"loading", "load_error", "not_loaded"}

\* C4 witness: the handler passed the `loading` test before the thread
\* set it, found loaded true afterwards, and answered 'nothing found'
\* while the thread had not yet cleared `loading`.
C4_Witness ==
    /\ h_pc = "replied" /\ reply.kind = "no_results"
    /\ l_pc = "finally" /\ loading /\ documents # <<>>

\* C10: whenever search_documents returned a result, the answer
\* handle_message hands to reply_to is built from those results and lists
\* their sources, whether ask_deepseek answered, answered nothing, got
\* another status, raised or was not configured; and what is sent is that
\* answer, unless reply_to itself raises.
C10_AnswerSurvivesGeneratorFailure ==
    (h_pc \in {"send", "replied"} /\ search_results # <<>>) =>
        /\ full_answer.kind \in {"deepseek", "simple"}
        /\ full_answer.kind = "deepseek" <=> (api_key /\ deepseek.answer)
        /\ full_answer.results = search_results
        /\ full_answer.sources =
              {search_results[k].file : k \in 1..Len(search_results)}
        /\ full_answer.sources # {}
        /\ h_pc = "replied" => (reply = full_answer \/ reply.kind = "send_error")

\* C10 witness: DeepSeek was configured and its request raised, and the
\* reply sent is the answer built by generate_simple_answer with sources.
C10_Witness ==
    /\ h_pc = "replied" /\ api_key
    /\ ~deepseek.answer /\ deepseek.error = "connection"
    /\ reply.kind = "simple" /\ reply.sources # {}

\* the candidates of the merge: exact_hits + retrieved (line 158)
Candidates == exact_hits \o retrieved

\* an element of the merged list that came from retrieve
IsSemantic(x) == "score" \in DOMAIN x

\* how often x is in the list s
Count(s, x) == Cardinality({i \in 1..Len(s) : s[i] = x})

\* C11: the list rag_answer returns is the candidates sorted by
\* non-increasing rerank_score and cut to top_k: it has min(top_k, number of
\* candidates) elements, holds no element more often than the candidates
\* do, no candidate left out has a higher rerank_score than one returned,
\* and every returned semantic element is an element of retrieve's result,
\* the text and meta of a row of the index.
C11_MergedSortedTruncated ==
    (q_pc = "done" /\ outcome = "returned") =>
        /\ Len(combined) = Min(top_k, Len(Candidates))
        /\ \A i \in 1..(Len(combined) - 1) :
              combined[i].rerank_score >= combined[i + 1].rerank_score
        /\ \A a \in 1..Len(combined) :
              Count(combined, combined[a]) <= Count(Candidates, combined[a])
        /\ \A j \in 1..Len(Candidates) :
              Count(combined, Candidates[j]) < Count(Candidates, Candidates[j]) =>
                  \A a \in 1..Len(combined) :
                      Candidates[j].rerank_score <= combined[a].rerank_score
        /\ \A a \in 1..Len(combined) :
              IsSemantic(combined[a]) =>
                  /\ \E j \in 1..Len(retrieved) : combined[a] = retrieved[j]
                  /\ \E r \in 1..Len(texts) :
                        /\ combined[a].text = texts[r]
                        /\ combined[a].meta = meta[r]
                        /\ combined[a].score = row_scores[r]

\* C11 witness: more candidates than top_k, and the list returned holds a
\* semantic element ranked before an exact one.
C11_Witness ==
    /\ q_pc = "done" /\ outcome = "returned"
    /\ Len(Candidates) > top_k
    /\ Len(combined) = 2
    /\ IsSemantic(combined[1]) /\ ~IsSemantic(combined[2])

\* retrieve has returned its list to rag_answer
Retrieved == q_pc = "rerank" \/ (q_pc = "done" /\ outcome = "returned")

\* the row r of the index is the j-th result of retrieve
IsRow(j, r) ==
    /\ retrieved[j].text = texts[r]
    /\ retrieved[j].meta = meta[r]
    /\ retrieved[j].score = row_scores[r]

\* C12: retrieve returns at most top_k results, by non-increasing score,
\* each the text, meta and score of a row of its own scoring at or above the
\* floor; a row at or above the floor that is not returned was beaten by
\* top_k rows scoring at least as much; and with top_k = 1 the result, if
\* any, has the highest score of the whole index.
C12_RetrieveOrderedAboveFloor ==
    Retrieved =>
        /\ Len(retrieved) <= top_k
        /\ \A j \in 1..(Len(retrieved) - 1) :
              retrieved[j].score >= retrieved[j + 1].score
        /\ \A j \in 1..Len(retrieved) : retrieved[j].score >= ScoreFloor
        /\ \E f \in [1..Len(retrieved) -> 1..Len(row_scores)] :
              /\ \A a, b \in 1..Len(retrieved) : a # b => f[a] # f[b]
              /\ \A a \in 1..Len(retrieved) : IsRow(a, f[a])
              /\ \A r \in 1..Len(row_scores) :
                    (row_scores[r] >= ScoreFloor
                       /\ \A a \in 1..Len(retrieved) : f[a] # r)
                    => /\ Len(retrieved) = top_k
                       /\ \A a \in 1..Len(retrieved) :
                             retrieved[a].score >= row_scores[r]
        /\ (top_k = 1 /\ retrieved # <<>>) =>
              \A r \in 1..Len(row_scores) : retrieved[1].score >= row_scores[r]

\* C12 witness: retrieve with top_k = 1 over two rows at and over the floor
\* returned the one over it.
C12_Witness ==
    /\ q_pc = "rerank" /\ top_k = 1
    /\ Len(row_scores) = 2
    /\ {row_scores[1], row_scores[2]} = {50, 80}
    /\ Len(retrieved) = 1 /\ retrieved[1].score = 80

\* reading or parsing the file f raises
ReadRaises(f) == f.fails_at # 0

\* C13 (as claimed): for a file whose reading raises, at its first part or
\* after some parts were read, extract_text_from_file returns the empty
\* string, so load_documents has no document of that file.
C13_FailedReadReturnsEmpty ==
    \A i \in 1..(l_i - 1) :
        (i <= Len(l_files) /\ ReadRaises(l_files[i])) =>
            /\ ExtractText(l_files[i]) = <<>>
            /\ \A d \in 1..Len(documents) : documents[d].file # l_files[i].file

\* the end of the window the loop is about to examine
CurrentEnd == WindowEnd(start, chunk_size, Len(text))

\* C14: with 0 <= overlap < chunk_size chunk_text terminates. An iteration
\* whose window ends before len(text) goes on with a strictly larger start;
\* the first whose window ends at len(text) leaves the loop, so the last
\* window examined ends at len(text); the loop condition itself ends the
\* call for the empty text only; and every call returns.
C14_ChunkTextTerminates ==
    /\ [][(GoodCfg /\ ck_pc = "loop") =>
            IF start < Len(text)
            THEN IF CurrentEnd = Len(text)
                 THEN ck_pc' = "done" /\ start' = start
                 ELSE ck_pc' = "loop" /\ start' > start /\ start' < Len(text)
            ELSE ck_pc' = "done" /\ Len(text) = 0 /\ chunks' = <<>>]_vars
    /\ (GoodCfg /\ ck_pc = "loop") ~> (ck_pc = "done")

\* C14 witness: a call with an overlap that returned after several
\* iterations, its last window shorter than chunk_size and ending at
\* len(text).
C14_Witness ==
    /\ ck_pc = "done" /\ GoodCfg /\ overlap > 0
    /\ start > 0
    /\ CurrentEnd = Len(text)
    /\ start + chunk_size > Len(text)

\* the element x of the merged list is the fragment of row r
IsFragment(x, r) == x.text = texts[r] /\ x.meta = meta[r]

\* C15 (as claimed): no fragment is twice in the list rag_answer returns.
C15_FragmentReturnedOnce ==
    (q_pc = "done" /\ outcome = "returned") =>
        \A a, b \in 1..Len(combined) :
            (a # b) =>
                ~(\E r \in 1..Len(texts) :
                     IsFragment(combined[a], r) /\ IsFragment(combined[b], r))

\* the number of keywords of the query, each counted as often as the query
\* has it, that occur in the (lowered) text t
KeywordCount(t) ==
    LET kws == Keywords(user_query)
    IN  Cardinality({i \in 1..Len(kws) : IsSubstr(kws[i], LowerStr(t))})

\* C16: on a loaded, non-empty document list search_documents returns at
\* most 3 results, each for a different document holding a keyword of the
\* query, with its count of matched keywords as score; by non-increasing
\* score, equal scores in load order; a matching document left out is
\* behind three results that score at least as much and, at an equal score,
\* were loaded before it; and no keyword means no result.
C16_SearchTopThreeByCount ==
    (h_pc = "searched" /\ documents # <<>>) =>
        /\ Len(search_results) <= 3
        /\ \E f \in [1..Len(search_results) -> 1..Len(documents)] :
              /\ \A a \in 1..Len(search_results) :
                    /\ search_results[a].file = documents[f[a]].file
                    /\ search_results[a].full_text = documents[f[a]].text
                    /\ search_results[a].score = KeywordCount(documents[f[a]].text)
                    /\ search_results[a].score >= 1
              /\ \A a, b \in 1..Len(search_results) :
                    a < b =>
                        \/ search_results[a].score > search_results[b].score
                        \/ /\ search_results[a].score = search_results[b].score
                           /\ f[a] < f[b]
              /\ \A j \in 1..Len(documents) :
                    (KeywordCount(documents[j].text) >= 1
                       /\ \A a \in 1..Len(search_results) : f[a] # j)
                    => /\ Len(search_results) = 3
                       /\ \A a \in 1..3 :
                             \/ search_results[a].score > KeywordCount(documents[j].text)
                             \/ /\ search_results[a].score = KeywordCount(documents[j].text)
                                /\ f[a] < j
        /\ (\A w \in {SplitWords(LowerStr(user_query))[i] :
                        i \in 1..Len(SplitWords(LowerStr(user_query)))} : Len(w) <= 2)
           => search_results = <<>>

\* C16 witness: four matching documents, the last loaded with the highest
\* count: it is returned first, two of the others follow in load order and
\* one is left out.
C16_Witness ==
    /\ h_pc = "searched" /\ Len(documents) = 4
    /\ \A j \in 1..4 : KeywordCount(documents[j].text) >= 1
    /\ Len(search_results) = 3
    /\ search_results[1].file = documents[4].file
    /\ search_results[2].file = documents[1].file
    /\ search_results[3].file = documents[2].file
    /\ search_results[1].score > search_results[2].score

====
